---- MODULE Spec2Model ----
(***************************************************************************)
(* A model of the authentication providers (auth-provider.ts) and of the   *)
(* request-scoped context (utils/request-context.ts) of the MCP OpenAPI    *)
(* server.                                                                 *)
(*                                                                         *)
(* JavaScript strings are TLA+ strings.  A value of type `string | null`   *)
(* (or an optional argument) is a sequence of length at most one: <<>> is  *)
(* null/undefined and <<s>> is the string s, so that the empty string <<"">>*)
(* and null stay distinct, as they are in the program.                     *)
(***************************************************************************)
EXTENDS Integers, Sequences, FiniteSets, TLC

VARIABLES
    apiKey,             \* RedmineAuthProvider.apiKey: string | null
    switchUser,         \* RedmineAuthProvider.switchUser: string | null
    result,             \* the most recent call on the provider and its outcome
    history             \* what the calls made so far were (read by the properties only):
                        \*   apiKeyArg, priorApiKeyArg: the arguments of the last setApiKey and of
                        \*     the one before it, since construction or the last clearAuth
                        \*   switchUserArg, priorSwitchUserArg: the same for setSwitchUser
                        \*   cleared: clearAuth has run and setApiKey has not run since
                        \*   droppedUser: the switch user the last clearAuth discarded

authVars == <<apiKey, switchUser, result, history>>

VARIABLES
    asyncStore,         \* the store AsyncLocalStorage holds for each async resource
    executing,          \* the async resource whose code is running (executionAsyncResource())
    callStack,          \* the runWithRequestContext calls the running code is inside of,
                        \*   innermost last: the context given and the store to restore
    chainState,         \* each continuation: "unborn", "suspended", "running" or "done"
    startedWith,        \* the context of the run each continuation was created in, if any
                        \*   (read by the properties only)
    exited,             \* the context of the last run the running code has returned from
                        \*   since it was scheduled, if any (read by the properties only)
    lastRead,           \* the most recent getRequestContext call and what it returned, with
                        \*   what the properties need of the state it was made in: who made
                        \*   it, inside how many runs, the contexts of the chains that were
                        \*   suspended then, what the object returned held, and whether that
                        \*   is what it held when the run was entered
    contextValue,       \* the headers and sessionId each RequestContextValue object holds now
    snapshotOf          \* what the context of each continuation held when its run was entered
                        \*   (read by the properties only)

contextVars == <<asyncStore, executing, callStack, chainState, startedWith, exited, lastRead,
                 contextValue, snapshotOf>>

VARIABLES
    objects,            \* the header mappings that exist, by identity: objects[o] is what
                        \*   object o holds now
    staticHeaders,      \* StaticAuthProvider.headers: the object the field refers to
    handed              \* what has happened to the mappings (read by the properties only):
                        \*   given: what the constructor's argument held at construction
                        \*   callerHolds: the caller passed an object (and so can write to it)
                        \*   givenModified: the caller has written to the object it passed
                        \*   atReturn: what each object held when getAuthHeaders returned it
                        \*   modified: the returned objects their receiver has written to
                        \*   last: the object the last resolved getAuthHeaders returned
                        \*   returns: the number of getAuthHeaders calls that resolved

mappingVars == <<objects, staticHeaders, handed>>

VARIABLES
    pending             \* each concurrent invocation's `await provider.getAuthHeaders()`:
                        \*   state: "idle", "awaiting" (the call has returned its promise)
                        \*     or "received" (the invocation has resumed with the outcome)
                        \*   promise: what the promise was settled with
                        \*   received: the outcome the invocation resumed with
                        \*   at: the two fields when the call was made, and overtaken:
                        \*     they had changed when the invocation resumed (both read by
                        \*     the properties only)

\* What the methods of RedmineAuthProvider leave alone, what those of the request
\* context do, and what the code that only handles header mappings does.
VARIABLES
    twin                \* a second RedmineAuthProvider, given the same calls as the first
                        \*   with keys that may differ after their first characters: its
                        \*   apiKey and switchUser, and what its last getAuthStatus returned

outsideProvider == <<contextVars, mappingVars, pending, twin>>

outsideContext == <<authVars, mappingVars, pending, twin>>

outsideMappings == <<contextVars, pending, twin>>

vars == <<authVars, contextVars, mappingVars, pending, twin>>

----------------------------------------------------------------------------
(* Values *)

null == <<>>

Some(s) == <<s>>

\* JavaScript truthiness of a `string | null`: null, undefined and "" are falsy.
Truthy(v) == v # null /\ v[1] # ""

Min(a, b) == IF a < b THEN a ELSE b

\* String.prototype.substring(0, n)
Substring0(s, n) == SubSeq(s, 1, Min(n, Len(s)))

\* The API keys, user names and HTTP errors the operations are called with.
ApiKeys == {"", "k", "test-key", "first-key-0001", "first-key-0002"}

UserNames == {"", "bot", "admin"}

OptionalOf(S) == {null} \cup {Some(s) : s \in S}

NoResponse == [hasResponse |-> FALSE, status |-> 0]

HttpError(st) == [hasResponse |-> TRUE, status |-> st]

AxiosErrors == {NoResponse} \cup {HttpError(st) : st \in {200, 400, 401, 403, 404, 500}}

----------------------------------------------------------------------------
(* RedmineAuthProvider *)

KeyNotSetMessage == "Redmine API key not set. Please set your API key using setApiKey() method."

UnauthorizedMessage == "Redmine authentication failed (401 Unauthorized). Please check:"

ForbiddenMessage == "Redmine access denied (403 Forbidden). Please check:"

PreviewLength == 8

Resolved(v) == [outcome |-> "resolved", value |-> v]

Rejected(msg) == [outcome |-> "rejected", value |-> msg]

Returned(v) == [outcome |-> "returned", value |-> v]

Call(name, arg, out) == [op |-> name, arg |-> arg, outcome |-> out.outcome, value |-> out.value]

\* getAuthHeaders testing `this.apiKey === null` in place of `!this.apiKey`.
getAuthHeaders_NullTest(key, user) ==
    IF key = null
    THEN Rejected(KeyNotSetMessage)
    ELSE LET headers == [h \in {"X-Redmine-API-Key", "Accept", "Content-Type"} |->
                            IF h = "X-Redmine-API-Key" THEN key[1] ELSE "application/json"]
         IN  IF Truthy(user)
             THEN Resolved(("X-Redmine-Switch-User" :> user[1]) @@ headers)
             ELSE Resolved(headers)

\* getAuthHeaders sending the key as a bearer token as well.
getAuthHeaders_Bearer(key, user) ==
    IF ~Truthy(key)
    THEN Rejected(KeyNotSetMessage)
    ELSE LET headers == [h \in {"X-Redmine-API-Key", "Accept", "Content-Type", "Authorization"} |->
                            IF h = "X-Redmine-API-Key" THEN key[1]
                            ELSE IF h = "Authorization" THEN "Bearer " \o key[1]
                            ELSE "application/json"]
         IN  IF Truthy(user)
             THEN Resolved(("X-Redmine-Switch-User" :> user[1]) @@ headers)
             ELSE Resolved(headers)

\* async getAuthHeaders(): the promise it returns, from the two fields.
getAuthHeaders(key, user) ==
    IF ~Truthy(key)
    THEN Rejected(KeyNotSetMessage)
    ELSE LET headers == [h \in {"X-Redmine-API-Key", "Accept", "Content-Type"} |->
                            IF h = "X-Redmine-API-Key" THEN key[1] ELSE "application/json"]
         IN  IF Truthy(user)
             THEN Resolved(("X-Redmine-Switch-User" :> user[1]) @@ headers)
             ELSE Resolved(headers)

\* error.response?.status
StatusCode(error) == IF error.hasResponse THEN Some(error.status) ELSE null

\* isAuthError taking 401 alone for an authentication error.
isAuthError_Only401(error) == StatusCode(error) = Some(401)

\* isAuthError(error): error.response?.status === 401 || error.response?.status === 403
isAuthError(error) == StatusCode(error) = Some(401) \/ StatusCode(error) = Some(403)

\* handleAuthError with the 403 branch missing.
handleAuthError_No403(error) ==
    LET statusCode == StatusCode(error)
    IN  IF statusCode = Some(401) THEN Rejected(UnauthorizedMessage)
        ELSE Resolved(FALSE)

\* handleAuthError asking for a retry where it reports none.
handleAuthError_Retry(error) ==
    LET statusCode == StatusCode(error)
    IN  IF statusCode = Some(401) THEN Rejected(UnauthorizedMessage)
        ELSE IF statusCode = Some(403) THEN Rejected(ForbiddenMessage)
        ELSE Resolved(TRUE)

\* async handleAuthError(error): the promise it returns.
handleAuthError(error) ==
    LET statusCode == StatusCode(error)
    IN  IF statusCode = Some(401) THEN Rejected(UnauthorizedMessage)
        ELSE IF statusCode = Some(403) THEN Rejected(ForbiddenMessage)
        ELSE Resolved(FALSE)

\* getAuthStatus previewing the whole key, the substring call left out.
getAuthStatus_WholeKey(key, user) ==
    Returned([hasApiKey     |-> Truthy(key),
              apiKeyPreview |-> IF Truthy(key) THEN Some(key[1] \o "...") ELSE null,
              switchUser    |-> user])

\* getAuthStatus showing the end of the key as well as its beginning.
getAuthStatus_EndShown(key, user) ==
    Returned([hasApiKey     |-> Truthy(key),
              apiKeyPreview |-> IF Truthy(key)
                                THEN Some(Substring0(key[1], PreviewLength) \o "..."
                                          \o SubSeq(key[1], Len(key[1]), Len(key[1])))
                                ELSE null,
              switchUser    |-> user])

\* getAuthStatus reporting a key whenever the field is not null (`this.apiKey !== null`).
getAuthStatus_HasKeyNotNull(key, user) ==
    Returned([hasApiKey     |-> key # null,
              apiKeyPreview |-> IF Truthy(key)
                                THEN Some(Substring0(key[1], PreviewLength) \o "...")
                                ELSE null,
              switchUser    |-> user])

\* getAuthStatus(): the object it returns, from the two fields.
getAuthStatus(key, user) ==
    Returned([hasApiKey     |-> Truthy(key),
              apiKeyPreview |-> IF Truthy(key)
                                THEN Some(Substring0(key[1], PreviewLength) \o "...")
                                ELSE null,
              switchUser    |-> user])

\* The two fields of the provider, as one value.
Provider == [apiKey |-> apiKey, switchUser |-> switchUser]

\* setApiKey dropping the switch user, as if a new key ended the impersonation.
setApiKey_ResetsUser(p, k) == [apiKey |-> Some(k), switchUser |-> null]

\* setApiKey(apiKey): this.apiKey = apiKey
setApiKey(p, k) == [p EXCEPT !.apiKey = Some(k)]

\* setSwitchUser(username): this.switchUser = username
setSwitchUser(p, u) == [p EXCEPT !.switchUser = Some(u)]

\* clearAuth(): both fields to null
clearAuth(p) == [apiKey |-> null, switchUser |-> null]

\* The constructor leaving the switch user argument out.
Constructed_KeyOnly(k, u) ==
    [apiKey     |-> IF Truthy(k) THEN k ELSE null,
     switchUser |-> null]

\* The concurrent tool invocations that share the provider.
MaxInvocations == 2

Invocations == 1..MaxInvocations

Idle == [state |-> "idle", promise |-> null, received |-> null, at |-> null, overtaken |-> FALSE]

\* No invocation has called getAuthHeaders yet.
NoInvocations == pending = [i \in Invocations |-> Idle]

\* One provider only: the second one is constructed without arguments and never used.
NoTwin == twin = [apiKey |-> null, switchUser |-> null, status |-> null]

\* constructor(apiKey?, switchUser?): the fields after construction.
Constructed(k, u) ==
    [apiKey     |-> IF Truthy(k) THEN k ELSE null,
     switchUser |-> IF Truthy(u) THEN u ELSE null]

Constructor(k, u) ==
        /\ apiKey = Constructed(k, u).apiKey
        /\ switchUser = Constructed(k, u).switchUser
        /\ result = Call("constructor", <<k, u>>, Returned(null))
        \* the constructor calls setApiKey / setSwitchUser for a truthy argument only
        /\ history = [apiKeyArg          |-> IF Truthy(k) THEN k ELSE null,
                      priorApiKeyArg     |-> null,
                      switchUserArg      |-> IF Truthy(u) THEN u ELSE null,
                      priorSwitchUserArg |-> null,
                      cleared            |-> FALSE,
                      droppedUser        |-> null]

\* setApiKey keeping a key that is already there (`this.apiKey ??= apiKey`).
SetApiKey_KeepFirst(k) ==
    /\ apiKey' = IF apiKey = null THEN Some(k) ELSE apiKey
    /\ result' = Call("setApiKey", Some(k), Returned(null))
    /\ history' = [history EXCEPT !.apiKeyArg = Some(k),
                                  !.priorApiKeyArg = history.apiKeyArg,
                                  !.cleared = FALSE]
    /\ UNCHANGED <<switchUser, outsideProvider>>

SetApiKey(k) ==
    /\ apiKey' = setApiKey(Provider, k).apiKey
    /\ switchUser' = setApiKey(Provider, k).switchUser
    /\ result' = Call("setApiKey", Some(k), Returned(null))
    /\ history' = [history EXCEPT !.apiKeyArg = Some(k),
                                  !.priorApiKeyArg = history.apiKeyArg,
                                  !.cleared = FALSE]
    /\ UNCHANGED outsideProvider

\* setSwitchUser keeping a user that is already there (`this.switchUser ??= username`).
SetSwitchUser_KeepFirst(u) ==
    /\ switchUser' = IF switchUser = null THEN Some(u) ELSE switchUser
    /\ result' = Call("setSwitchUser", Some(u), Returned(null))
    /\ history' = [history EXCEPT !.switchUserArg = Some(u),
                                  !.priorSwitchUserArg = history.switchUserArg]
    /\ UNCHANGED <<apiKey, outsideProvider>>

SetSwitchUser(u) ==
    /\ apiKey' = setSwitchUser(Provider, u).apiKey
    /\ switchUser' = setSwitchUser(Provider, u).switchUser
    /\ result' = Call("setSwitchUser", Some(u), Returned(null))
    /\ history' = [history EXCEPT !.switchUserArg = Some(u),
                                  !.priorSwitchUserArg = history.switchUserArg]
    /\ UNCHANGED outsideProvider

GetAuthHeaders ==
    /\ result' = Call("getAuthHeaders", null, getAuthHeaders(apiKey, switchUser))
    /\ UNCHANGED <<apiKey, switchUser, history, outsideProvider>>

\* handleAuthError dropping the credentials the server has refused.
HandleAuthError_ClearsRefused(error) ==
    /\ result' = Call("handleAuthError", error, handleAuthError(error))
    /\ apiKey' = IF isAuthError(error) THEN null ELSE apiKey
    /\ switchUser' = IF isAuthError(error) THEN null ELSE switchUser
    /\ UNCHANGED <<history, outsideProvider>>

HandleAuthError(error) ==
    /\ result' = Call("handleAuthError", error, handleAuthError(error))
    /\ UNCHANGED <<apiKey, switchUser, history, outsideProvider>>

\* A call of the function isAuthError(error), which is no method of the provider.
IsAuthError(error) ==
    /\ result' = Call("isAuthError", error, Returned(isAuthError(error)))
    /\ UNCHANGED <<apiKey, switchUser, history, outsideProvider>>

GetAuthStatus ==
    /\ result' = Call("getAuthStatus", null, getAuthStatus(apiKey, switchUser))
    /\ UNCHANGED <<apiKey, switchUser, history, outsideProvider>>

\* clearAuth forgetting the switch user.
ClearAuth_KeyOnly ==
    /\ apiKey' = null
    /\ UNCHANGED switchUser
    /\ result' = Call("clearAuth", null, Returned(null))
    /\ history' = [apiKeyArg          |-> null,
                   priorApiKeyArg     |-> null,
                   switchUserArg      |-> null,
                   priorSwitchUserArg |-> null,
                   cleared            |-> TRUE,
                   droppedUser        |-> history.switchUserArg]
    /\ UNCHANGED outsideProvider

ClearAuth ==
    /\ apiKey' = clearAuth(Provider).apiKey
    /\ switchUser' = clearAuth(Provider).switchUser
    /\ result' = Call("clearAuth", null, Returned(null))
    /\ history' = [apiKeyArg          |-> null,
                   priorApiKeyArg     |-> null,
                   switchUserArg      |-> null,
                   priorSwitchUserArg |-> null,
                   cleared            |-> TRUE,
                   droppedUser        |-> history.switchUserArg]
    /\ UNCHANGED outsideProvider

----------------------------------------------------------------------------
(* StaticAuthProvider, and the header mappings as objects: who holds a       *)
(* reference to which mapping, and what each holds.                          *)

MaxObjects == 3

EmptyMapping == <<>>

\* The headers a StaticAuthProvider is constructed with: none, {} or one entry.
StaticHeaderArgs == {null, Some(EmptyMapping), Some("Authorization" :> "Bearer static-token")}

\* A write to a mapping by code that holds a reference to it.
Modified(m) == ("X-Injected" :> "injected") @@ m

\* constructor(private headers = {}): the field refers to the object given, or to
\* a new empty one.
StaticConstructor(headers) ==
    /\ objects = << IF headers = null THEN EmptyMapping ELSE headers[1] >>
    /\ staticHeaders = 1
    /\ handed = [given         |-> IF headers = null THEN EmptyMapping ELSE headers[1],
                 callerHolds   |-> headers # null,
                 givenModified |-> FALSE,
                 atReturn      |-> <<null>>,
                 modified      |-> {},
                 last          |-> 0,
                 returns       |-> 0]

\* getAuthHeaders returning the provider's own object (`return this.headers`).
StaticResultObject_NoCopy == staticHeaders

\* `{ ...this.headers }` is a new object.
StaticResultObject == Len(objects) + 1

\* RedmineAuthProvider.getAuthHeaders keeping one headers object and filling it
\* again on every call.
ResultObject_Reused == IF handed.last > 0 THEN handed.last ELSE Len(objects) + 1

\* `const headers: Record<string, string> = { ... }` is a new object.
ResultObject == Len(objects) + 1

\* Object o comes to hold contents: a new object, or one that exists.
Store(seq, o, contents) ==
    IF o > Len(seq) THEN Append(seq, contents) ELSE [seq EXCEPT ![o] = contents]

\* getAuthHeaders resolves to object o, which holds contents.
Hand(o, contents) ==
    /\ objects' = Store(objects, o, contents)
    /\ handed' = [handed EXCEPT !.atReturn = Store(@, o, Some(contents)),
                                !.modified = @ \ {o},
                                !.last = o,
                                !.returns = @ + 1]

\* StaticAuthProvider.getAuthHeaders(): a copy of what this.headers holds now.
Static_getAuthHeaders == Resolved(objects[staticHeaders])

\* StaticAuthProvider.handleAuthError(_error)
Static_handleAuthError(error) == Resolved(FALSE)

StaticGetAuthHeaders ==
    /\ Len(objects) < MaxObjects
    /\ result' = Call("StaticAuthProvider.getAuthHeaders", null, Static_getAuthHeaders)
    /\ Hand(StaticResultObject, Static_getAuthHeaders.value)
    /\ UNCHANGED <<apiKey, switchUser, history, staticHeaders, outsideMappings>>

StaticHandleAuthError(error) ==
    /\ result' = Call("StaticAuthProvider.handleAuthError", error, Static_handleAuthError(error))
    /\ UNCHANGED <<apiKey, switchUser, history, mappingVars, outsideMappings>>

\* RedmineAuthProvider.getAuthHeaders(), with the object it resolves to.
GetAuthHeadersObject ==
    /\ Len(objects) < MaxObjects
    /\ result' = Call("getAuthHeaders", null, getAuthHeaders(apiKey, switchUser))
    /\ IF getAuthHeaders(apiKey, switchUser).outcome = "resolved"
       THEN Hand(ResultObject, getAuthHeaders(apiKey, switchUser).value)
       ELSE UNCHANGED <<objects, handed>>
    /\ UNCHANGED <<apiKey, switchUser, history, staticHeaders, outsideMappings>>

\* The code that received object o from getAuthHeaders writes to it.
ModifyReturned(o) ==
    /\ o \in 1..Len(objects)
    /\ handed.atReturn[o] # null
    /\ o \notin handed.modified
    /\ objects' = [objects EXCEPT ![o] = Modified(@)]
    /\ handed' = [handed EXCEPT !.modified = @ \cup {o}]
    /\ UNCHANGED <<authVars, staticHeaders, outsideMappings>>

\* The code that constructed the StaticAuthProvider writes to the object it passed.
ModifyGiven ==
    /\ handed.callerHolds
    /\ ~handed.givenModified
    /\ objects' = [objects EXCEPT ![staticHeaders] = Modified(@)]
    /\ handed' = [handed EXCEPT !.givenModified = TRUE]
    /\ UNCHANGED <<authVars, staticHeaders, outsideMappings>>

\* The keys and the user the two providers are driven with here.
MappingKeys == {"k", "test-key"}

MappingUsers == {"bot"}

MappingErrors == {NoResponse, HttpError(401), HttpError(500)}

----------------------------------------------------------------------------
(* Request context: runWithRequestContext / getRequestContext over one       *)
(* AsyncLocalStorage.  JavaScript runs one piece of code at a time: the      *)
(* event loop ("root") starts work, a continuation runs from the await that  *)
(* resumes it to its next await, and storage.run(context, callback) is       *)
(* entered and left on the call stack of the running code.                   *)

MaxChains == 2

MaxDepth == 2

Chains == 1..MaxChains

Root == 0

Resources == {Root} \cup Chains

\* The RequestContextValue objects handed to runWithRequestContext, by identity.
RequestContexts == {"contextA", "contextB"}

\* What each RequestContextValue object holds when the caller builds it.
InitialValue(context) ==
    IF context = "contextA"
    THEN [headers |-> ("authorization" :> "Bearer A"), sessionId |-> Some("session-A")]
    ELSE [headers |-> ("authorization" :> "Bearer B"), sessionId |-> Some("session-B")]

NoRead == [by |-> -1, depth |-> 0, value |-> null, enclosing |-> null,
           startedWith |-> null, exited |-> null, suspended |-> {},
           contents |-> null, asEntered |-> TRUE]

ContextInit ==
    /\ asyncStore = [r \in Resources |-> null]
    /\ executing = Root
    /\ callStack = <<>>
    /\ chainState = [c \in Chains |-> "unborn"]
    /\ startedWith = [c \in Chains |-> null]
    /\ exited = null
    /\ lastRead = NoRead
    /\ contextValue = [context \in RequestContexts |-> InitialValue(context)]
    /\ snapshotOf = [c \in Chains |-> null]

Depth == Len(callStack)

\* Continuations are numbered in the order they are created: the next one, or 0
\* when MaxChains have been.
NextChain ==
    LET unborn == {c \in Chains : chainState[c] = "unborn"}
    IN  IF unborn = {} THEN 0 ELSE CHOOSE c \in unborn : \A d \in unborn : c <= d

\* storage.getStore() reading one global slot, as a module-level variable would
\* be, and not the store of the running resource.
getRequestContext_Global == asyncStore[Root]

\* getRequestContext(): storage.getStore(), the store of the running resource.
getRequestContext == asyncStore[executing]

\* The context of the innermost runWithRequestContext the running code is inside
\* of, by the nesting of the calls alone.
Enclosing == IF Depth > 0 THEN Some(callStack[Depth].context) ELSE null

\* The context the running code belongs to by the structure of the program: the
\* innermost enclosing run, else the run its continuation was created in.
Scope ==
    IF Depth > 0 THEN Enclosing
    ELSE IF executing = Root THEN null
    ELSE startedWith[executing]

\* What the context the running code belongs to held when its run was entered.
ScopeSnapshot ==
    IF Depth > 0 THEN Some(callStack[Depth].snapshot)
    ELSE IF executing = Root THEN null
    ELSE snapshotOf[executing]

\* What the object a getRequestContext() call returns holds at the time of the call.
Contents(store) == IF store = null THEN null ELSE Some(contextValue[store[1]])

\* runWithRequestContext(context, callback), entry: storage.run sets the store of
\* the running resource and keeps the old one to restore.
RunEnter(context) ==
    /\ Depth < MaxDepth
    /\ callStack' = Append(callStack, [context |-> context, oldStore |-> asyncStore[executing],
                                       snapshot |-> contextValue[context]])
    /\ asyncStore' = [asyncStore EXCEPT ![executing] = Some(context)]
    /\ UNCHANGED <<executing, chainState, startedWith, exited, lastRead, contextValue,
                   snapshotOf, outsideContext>>

\* storage.run leaving the store in place on return, as enterWith(context) followed
\* by callback() would.
RunExit_NoRestore ==
    /\ Depth > 0
    /\ callStack' = SubSeq(callStack, 1, Depth - 1)
    /\ exited' = Some(callStack[Depth].context)
    /\ UNCHANGED <<asyncStore, executing, chainState, startedWith, lastRead, contextValue,
                   snapshotOf, outsideContext>>

\* runWithRequestContext(context, callback), return: the callback has returned
\* (an async callback, its promise) and storage.run restores the old store.
RunExit ==
    /\ Depth > 0
    /\ callStack' = SubSeq(callStack, 1, Depth - 1)
    /\ asyncStore' = [asyncStore EXCEPT ![executing] = callStack[Depth].oldStore]
    /\ exited' = Some(callStack[Depth].context)
    /\ UNCHANGED <<executing, chainState, startedWith, lastRead, contextValue, snapshotOf,
                   outsideContext>>

\* A getRequestContext() call by the running code.
GetRequestContext ==
    /\ lastRead' = [by |-> executing, depth |-> Depth, value |-> getRequestContext,
                    enclosing |-> Enclosing,
                    startedWith |-> IF executing = Root THEN null ELSE startedWith[executing],
                    exited |-> exited,
                    suspended |-> {startedWith[c] : c \in {d \in Chains : chainState[d] = "suspended"}},
                    contents |-> Contents(getRequestContext),
                    asEntered |-> Contents(getRequestContext) = ScopeSnapshot]
    /\ UNCHANGED <<asyncStore, executing, callStack, chainState, startedWith, exited,
                   contextValue, snapshotOf, outsideContext>>

\* An await whose continuation takes no store from the code that creates it.
Await_NoPropagation(c) ==
    /\ c = NextChain
    /\ chainState' = [chainState EXCEPT ![c] = "suspended"]
    /\ startedWith' = [startedWith EXCEPT ![c] = Scope]
    /\ snapshotOf' = [snapshotOf EXCEPT ![c] = ScopeSnapshot]
    /\ UNCHANGED <<asyncStore, executing, callStack, exited, lastRead, contextValue, outsideContext>>

\* The running code reaches an await (the first one of an async callback, or of any
\* async function it calls): a new continuation c is created, and AsyncLocalStorage
\* gives it the store of the resource that creates it.
Await(c) ==
    /\ c = NextChain
    /\ chainState' = [chainState EXCEPT ![c] = "suspended"]
    /\ asyncStore' = [asyncStore EXCEPT ![c] = asyncStore[executing]]
    /\ startedWith' = [startedWith EXCEPT ![c] = Scope]
    /\ snapshotOf' = [snapshotOf EXCEPT ![c] = ScopeSnapshot]
    /\ UNCHANGED <<executing, callStack, exited, lastRead, contextValue, outsideContext>>

\* The event loop resumes a suspended continuation.
Resume(c) ==
    /\ executing = Root
    /\ Depth = 0
    /\ chainState[c] = "suspended"
    /\ executing' = c
    /\ chainState' = [chainState EXCEPT ![c] = "running"]
    /\ exited' = null
    /\ UNCHANGED <<asyncStore, callStack, startedWith, lastRead, contextValue, snapshotOf,
                   outsideContext>>

\* The running continuation awaits again: it gives control back to the event loop
\* and its next part runs under the same resource.
Suspend ==
    /\ executing # Root
    /\ Depth = 0
    /\ chainState' = [chainState EXCEPT ![executing] = "suspended"]
    /\ executing' = Root
    /\ exited' = null
    /\ UNCHANGED <<asyncStore, callStack, startedWith, lastRead, contextValue, snapshotOf,
                   outsideContext>>

\* The running continuation ends.
Finish ==
    /\ executing # Root
    /\ Depth = 0
    /\ chainState' = [chainState EXCEPT ![executing] = "done"]
    /\ executing' = Root
    /\ exited' = null
    /\ UNCHANGED <<asyncStore, callStack, startedWith, lastRead, contextValue, snapshotOf,
                   outsideContext>>

InitContext ==
    /\ Constructor(null, null)
    /\ ContextInit
    /\ StaticConstructor(null)
    /\ NoInvocations
    /\ NoTwin

NextContext ==
    \/ \E context \in RequestContexts : RunEnter(context)
    \/ RunExit
    \/ GetRequestContext
    \/ \E c \in Chains : Await(c)
    \/ \E c \in Chains : Resume(c)
    \/ Suspend
    \/ Finish

SpecContext == InitContext /\ [][NextContext]_vars

\* The values running code may write into a context object it holds.
OverwrittenHeaders == ("authorization" :> "Bearer X")

OverwrittenSessionId == Some("session-X")

\* RequestContextValue has no readonly field and runWithRequestContext stores the
\* object it is given, not a copy: the caller that built the object (the event
\* loop's code), and any code that gets it from getRequestContext(), can assign
\* to its sessionId ...
WriteSessionId(context) ==
    /\ executing = Root \/ getRequestContext = Some(context)
    /\ contextValue' = [contextValue EXCEPT ![context].sessionId = OverwrittenSessionId]
    /\ UNCHANGED <<asyncStore, executing, callStack, chainState, startedWith, exited, lastRead,
                   snapshotOf, outsideContext>>

\* ... and to its headers.
WriteHeaders(context) ==
    /\ executing = Root \/ getRequestContext = Some(context)
    /\ contextValue' = [contextValue EXCEPT ![context].headers = OverwrittenHeaders]
    /\ UNCHANGED <<asyncStore, executing, callStack, chainState, startedWith, exited, lastRead,
                   snapshotOf, outsideContext>>

\* Runs started by the event loop's code (a request handler) and not nested, with
\* the writes.
NextContextWrites ==
    \/ \E context \in RequestContexts : executing = Root /\ Depth = 0 /\ RunEnter(context)
    \/ RunExit
    \/ GetRequestContext
    \/ \E c \in Chains : Await(c)
    \/ \E c \in Chains : Resume(c)
    \/ Suspend
    \/ Finish
    \/ \E context \in RequestContexts : WriteSessionId(context)
    \/ \E context \in RequestContexts : WriteHeaders(context)

SpecContextWrites == InitContext /\ [][NextContextWrites]_vars

----------------------------------------------------------------------------
(* The two providers and the mappings they hand out *)

InitMappings ==
    /\ Constructor(null, null)
    /\ ContextInit
    /\ \E headers \in StaticHeaderArgs : StaticConstructor(headers)
    /\ NoInvocations
    /\ NoTwin

NextMappings ==
    \/ StaticGetAuthHeaders
    \/ \E error \in MappingErrors : StaticHandleAuthError(error)
    \/ GetAuthHeadersObject
    \/ \E k \in MappingKeys : SetApiKey(k)
    \/ \E u \in MappingUsers : SetSwitchUser(u)
    \/ ClearAuth
    \/ \E o \in 1..MaxObjects : ModifyReturned(o)
    \/ ModifyGiven

SpecMappings == InitMappings /\ [][NextMappings]_vars

----------------------------------------------------------------------------
(* Concurrent invocations sharing one RedmineAuthProvider.  Each runs on the  *)
(* one JavaScript thread: a setter, or the body of getAuthHeaders (which has  *)
(* no await in it), runs from start to end without another invocation's code  *)
(* in between; an invocation that awaits the promise of getAuthHeaders        *)
(* resumes later, after any number of steps of the others.                    *)

\* An invocation resuming with headers put together when it resumes: the key
\* of the call with the switch user of the moment (an await between the two
\* reads in getAuthHeaders).
Settled_LateSwitchUser(i) == getAuthHeaders(pending[i].at[1].apiKey, switchUser)

\* What the invocation resumes with: what the promise was settled with.
Settled(i) == pending[i].promise[1]

\* Invocation i calls getAuthHeaders: the body runs and the promise is settled.
CallGetAuthHeaders(i) ==
    /\ pending[i].state # "awaiting"
    /\ result' = Call("getAuthHeaders", null, getAuthHeaders(apiKey, switchUser))
    /\ pending' = [pending EXCEPT ![i] = [state       |-> "awaiting",
                                          promise     |-> Some(getAuthHeaders(apiKey, switchUser)),
                                          received    |-> null,
                                          at          |-> Some(Provider),
                                          overtaken   |-> FALSE]]
    /\ UNCHANGED <<apiKey, switchUser, history, contextVars, mappingVars, twin>>

\* Invocation i resumes from its await.
Deliver(i) ==
    /\ pending[i].state = "awaiting"
    /\ pending' = [pending EXCEPT ![i].state = "received",
                                  ![i].received = Some(Settled(i)),
                                  ![i].overtaken = (pending[i].at[1] # Provider)]
    /\ UNCHANGED <<authVars, contextVars, mappingVars, twin>>

ConcurrentKeys == {"k", "test-key"}

ConcurrentUsers == {"bot"}

InitConcurrent ==
    /\ Constructor(null, null)
    /\ ContextInit
    /\ StaticConstructor(null)
    /\ NoInvocations
    /\ NoTwin

NextConcurrent ==
    \/ \E i \in Invocations : CallGetAuthHeaders(i)
    \/ \E i \in Invocations : Deliver(i)
    \/ \E k \in ConcurrentKeys : SetApiKey(k)
    \/ \E u \in ConcurrentUsers : SetSwitchUser(u)
    \/ ClearAuth

SpecConcurrent == InitConcurrent /\ [][NextConcurrent]_vars

----------------------------------------------------------------------------
(* Two RedmineAuthProviders given the same sequence of calls, the keys of    *)
(* the second agreeing with those of the first in their first characters.    *)

TwinKeys == {"", "k", "first-ke", "first-key-0001", "first-key-0002"}

TwinUsers == {"", "bot"}

\* The first n characters of s, all of s when it has no more than n.
Prefix(s, n) == IF Len(s) <= n THEN s ELSE SubSeq(s, 1, n)

\* The pairs of keys that agree on their first 8 characters.
AgreeingKeys == {pair \in TwinKeys \X TwinKeys : Prefix(pair[1], 8) = Prefix(pair[2], 8)}

BothConstructed(k1, k2, u) ==
    /\ Constructor(k1, u)
    /\ twin = [apiKey     |-> Constructed(k2, u).apiKey,
               switchUser |-> Constructed(k2, u).switchUser,
               status     |-> null]

BothSetApiKey(k1, k2) ==
    /\ apiKey' = setApiKey(Provider, k1).apiKey
    /\ switchUser' = setApiKey(Provider, k1).switchUser
    /\ result' = Call("setApiKey", Some(k1), Returned(null))
    /\ history' = [history EXCEPT !.apiKeyArg = Some(k1),
                                  !.priorApiKeyArg = history.apiKeyArg,
                                  !.cleared = FALSE]
    /\ twin' = [twin EXCEPT !.apiKey = setApiKey(twin, k2).apiKey,
                            !.switchUser = setApiKey(twin, k2).switchUser]
    /\ UNCHANGED <<contextVars, mappingVars, pending>>

BothSetSwitchUser(u) ==
    /\ apiKey' = setSwitchUser(Provider, u).apiKey
    /\ switchUser' = setSwitchUser(Provider, u).switchUser
    /\ result' = Call("setSwitchUser", Some(u), Returned(null))
    /\ history' = [history EXCEPT !.switchUserArg = Some(u),
                                  !.priorSwitchUserArg = history.switchUserArg]
    /\ twin' = [twin EXCEPT !.apiKey = setSwitchUser(twin, u).apiKey,
                            !.switchUser = setSwitchUser(twin, u).switchUser]
    /\ UNCHANGED <<contextVars, mappingVars, pending>>

BothClearAuth ==
    /\ apiKey' = clearAuth(Provider).apiKey
    /\ switchUser' = clearAuth(Provider).switchUser
    /\ result' = Call("clearAuth", null, Returned(null))
    /\ history' = [apiKeyArg          |-> null,
                   priorApiKeyArg     |-> null,
                   switchUserArg      |-> null,
                   priorSwitchUserArg |-> null,
                   cleared            |-> TRUE,
                   droppedUser        |-> history.switchUserArg]
    /\ twin' = [twin EXCEPT !.apiKey = clearAuth(twin).apiKey,
                            !.switchUser = clearAuth(twin).switchUser]
    /\ UNCHANGED <<contextVars, mappingVars, pending>>

BothGetAuthStatus ==
    /\ result' = Call("getAuthStatus", null, getAuthStatus(apiKey, switchUser))
    /\ twin' = [twin EXCEPT !.status = Some(getAuthStatus(twin.apiKey, twin.switchUser))]
    /\ UNCHANGED <<apiKey, switchUser, history, contextVars, mappingVars, pending>>

InitTwins ==
    /\ \E u \in OptionalOf(TwinUsers) :
            \/ BothConstructed(null, null, u)
            \/ \E pair \in AgreeingKeys : BothConstructed(Some(pair[1]), Some(pair[2]), u)
    /\ ContextInit
    /\ StaticConstructor(null)
    /\ NoInvocations

NextTwins ==
    \/ \E pair \in AgreeingKeys : BothSetApiKey(pair[1], pair[2])
    \/ \E u \in TwinUsers : BothSetSwitchUser(u)
    \/ BothClearAuth
    \/ BothGetAuthStatus

SpecTwins == InitTwins /\ [][NextTwins]_vars

----------------------------------------------------------------------------
(* The provider alone *)

Init ==
    /\ \E k \in OptionalOf(ApiKeys), u \in OptionalOf(UserNames) : Constructor(k, u)
    /\ ContextInit
    /\ StaticConstructor(null)
    /\ NoInvocations
    /\ NoTwin

Next ==
    \/ \E k \in ApiKeys : SetApiKey(k)
    \/ \E u \in UserNames : SetSwitchUser(u)
    \/ GetAuthHeaders
    \/ \E error \in AxiosErrors : HandleAuthError(error)
    \/ \E error \in AxiosErrors : IsAuthError(error)
    \/ GetAuthStatus
    \/ ClearAuth

Spec == Init /\ [][Next]_vars


----------------------------------------------------------------------------
(* Properties of RedmineAuthProvider, checked under Spec *)

\* A key (a user) is set once its setter has run since construction or the last
\* clearAuth; it is non-empty when the string given has at least one character.
IsSet(arg) == arg # null

NonEmpty(arg) == arg # null /\ Len(arg[1]) > 0

SwitchUserHeader == "X-Redmine-Switch-User"

ApiKeyHeader == "X-Redmine-API-Key"

\* The three headers of a provider with key k and no switch user.
BasicHeaders(k) ==
    (ApiKeyHeader :> k) @@ ("Accept" :> "application/json") @@ ("Content-Type" :> "application/json")

\* The first n characters of s, all of s when it has no more than n.
FirstChars(s, n) == IF Len(s) <= n THEN s ELSE SubSeq(s, 1, n)

AfterGetAuthHeaders == result.op = "getAuthHeaders"

AfterGetAuthStatus == result.op = "getAuthStatus"

AfterHandleAuthError == result.op = "handleAuthError"

\* C1 as stated: getAuthHeaders rejects with the 'Redmine API key not set' error if
\* and only if no API key is currently set, and never resolves to a mapping that
\* lacks X-Redmine-API-Key.
C1_Original ==
    AfterGetAuthHeaders =>
        /\ result.outcome = "rejected" <=> ~IsSet(history.apiKeyArg)
        /\ result.outcome = "rejected" => result.value = KeyNotSetMessage
        /\ result.outcome = "resolved" => ApiKeyHeader \in DOMAIN result.value

\* C1 amended: getAuthHeaders rejects with the 'Redmine API key not set' error if
\* and only if no non-empty API key is currently set (none was set, or the empty
\* string was), and never resolves to a mapping that lacks X-Redmine-API-Key.
C1_RejectsIffNoNonEmptyKey ==
    AfterGetAuthHeaders =>
        /\ result.outcome = "rejected" <=> ~NonEmpty(history.apiKeyArg)
        /\ result.outcome = "rejected" => result.value = KeyNotSetMessage
        /\ result.outcome = "resolved" => ApiKeyHeader \in DOMAIN result.value

C1_Witness ==
    /\ AfterGetAuthHeaders
    /\ result.outcome = "rejected"
    /\ history.apiKeyArg = Some("")

\* C2 as stated: with no switch user set, after setApiKey calls whose last argument
\* is k, getAuthHeaders resolves to exactly the three entries X-Redmine-API-Key = k,
\* Accept and Content-Type = application/json.
C2_Original ==
    AfterGetAuthHeaders /\ ~IsSet(history.switchUserArg) /\ IsSet(history.apiKeyArg) =>
        /\ result.outcome = "resolved"
        /\ result.value = BasicHeaders(history.apiKeyArg[1])

\* C2 amended: the same for a non-empty k, the most recently set key and never an
\* earlier one.
C2_LastNonEmptyKeyInHeaders ==
    AfterGetAuthHeaders /\ ~IsSet(history.switchUserArg) /\ NonEmpty(history.apiKeyArg) =>
        /\ result.outcome = "resolved"
        /\ result.value = BasicHeaders(history.apiKeyArg[1])

C2_Witness ==
    /\ AfterGetAuthHeaders
    /\ ~IsSet(history.switchUserArg)
    /\ history.apiKeyArg = Some("test-key")
    /\ history.priorApiKeyArg = Some("first-key-0001")
    /\ result.outcome = "resolved"

\* C3 as stated: with an API key set, after setSwitchUser(u) for any string u the
\* headers include X-Redmine-Switch-User = the most recently set u; with no switch
\* user set since construction or the last clearAuth the header is absent.
C3_Original ==
    AfterGetAuthHeaders /\ NonEmpty(history.apiKeyArg) =>
        /\ result.outcome = "resolved"
        /\ IsSet(history.switchUserArg) =>
              /\ SwitchUserHeader \in DOMAIN result.value
              /\ result.value[SwitchUserHeader] = history.switchUserArg[1]
        /\ ~IsSet(history.switchUserArg) => SwitchUserHeader \notin DOMAIN result.value

\* C3 amended: the same for any non-empty string u.
C3_LastNonEmptySwitchUserInHeaders ==
    AfterGetAuthHeaders /\ NonEmpty(history.apiKeyArg) =>
        /\ result.outcome = "resolved"
        /\ NonEmpty(history.switchUserArg) =>
              /\ SwitchUserHeader \in DOMAIN result.value
              /\ result.value[SwitchUserHeader] = history.switchUserArg[1]
        /\ ~IsSet(history.switchUserArg) => SwitchUserHeader \notin DOMAIN result.value

C3_Witness ==
    /\ AfterGetAuthHeaders
    /\ NonEmpty(history.apiKeyArg)
    /\ history.switchUserArg = Some("bot")
    /\ history.priorSwitchUserArg = Some("admin")
    /\ result.outcome = "resolved"

\* C4: clearAuth clears all authentication data: after it, and until a setter runs,
\* getAuthStatus returns {hasApiKey: false, apiKeyPreview: null, switchUser: null};
\* getAuthHeaders rejects on every call until setApiKey is called again; and a
\* switch user set before clearAuth is not in the headers after a later setApiKey.
C4_ClearAuthClearsAll ==
    /\ AfterGetAuthStatus /\ history.cleared /\ ~IsSet(history.switchUserArg) =>
          result.value = [hasApiKey |-> FALSE, apiKeyPreview |-> null, switchUser |-> null]
    /\ AfterGetAuthHeaders /\ history.cleared => result.outcome = "rejected"
    /\ AfterGetAuthHeaders /\ result.outcome = "resolved" /\ ~IsSet(history.switchUserArg) =>
          SwitchUserHeader \notin DOMAIN result.value

C4_Witness ==
    /\ AfterGetAuthHeaders
    /\ result.outcome = "resolved"
    /\ history.droppedUser = Some("bot")
    /\ ~IsSet(history.switchUserArg)
    /\ ~history.cleared

\* C5: handleAuthError rejects with the '401 Unauthorized' message for a response
\* status of 401 and with the '403 Forbidden' message for 403, whatever the
\* credentials; it resolves to no boolean for these.
C5_AuthErrorsRejected ==
    AfterHandleAuthError /\ result.arg.hasResponse =>
        /\ result.arg.status = 401 =>
              result.outcome = "rejected" /\ result.value = UnauthorizedMessage
        /\ result.arg.status = 403 =>
              result.outcome = "rejected" /\ result.value = ForbiddenMessage

C5_Witness ==
    /\ AfterHandleAuthError
    /\ result.arg = HttpError(403)
    /\ result.outcome = "rejected"
    /\ NonEmpty(history.apiKeyArg)

\* C6: handleAuthError never resolves to true; for every status other than 401 and
\* 403, and for an error without a response, it resolves to false.
C6_NeverRetries ==
    AfterHandleAuthError =>
        /\ result.outcome = "resolved" => result.value = FALSE
        /\ ~(result.arg.hasResponse /\ result.arg.status \in {401, 403}) =>
              result.outcome = "resolved" /\ result.value = FALSE

C6_Witness ==
    /\ AfterHandleAuthError
    /\ result.arg = NoResponse
    /\ result.outcome = "resolved"
    /\ result.value = FALSE

\* C7: the headers getAuthHeaders returns never contain an Authorization entry; the
\* key travels as X-Redmine-API-Key.
C7_NoAuthorizationHeader ==
    AfterGetAuthHeaders /\ result.outcome = "resolved" =>
        /\ "Authorization" \notin DOMAIN result.value
        /\ result.value[ApiKeyHeader] = apiKey[1]

C7_Witness ==
    /\ AfterGetAuthHeaders
    /\ result.outcome = "resolved"
    /\ NonEmpty(history.switchUserArg)

\* C8 as stated: getAuthStatus has hasApiKey true exactly when an API key is set,
\* apiKeyPreview the first 8 characters of the key (all of a shorter one) followed
\* by '...' when a key is set and null otherwise, and switchUser the most recently
\* set switch user, or null when none is set.
C8_Original ==
    AfterGetAuthStatus =>
        /\ result.value.hasApiKey = IsSet(history.apiKeyArg)
        /\ result.value.apiKeyPreview =
              IF IsSet(history.apiKeyArg)
              THEN Some(FirstChars(history.apiKeyArg[1], 8) \o "...")
              ELSE null
        /\ result.value.switchUser = history.switchUserArg

\* C8 amended: hasApiKey is true exactly when a non-empty API key is set, and
\* apiKeyPreview is the preview of a non-empty key and null otherwise (also for
\* an empty key); switchUser as stated.
C8_StatusReportsCredentials ==
    AfterGetAuthStatus =>
        /\ result.value.hasApiKey = NonEmpty(history.apiKeyArg)
        /\ result.value.apiKeyPreview =
              IF NonEmpty(history.apiKeyArg)
              THEN Some(FirstChars(history.apiKeyArg[1], 8) \o "...")
              ELSE null
        /\ result.value.switchUser = history.switchUserArg

C8_Witness ==
    /\ AfterGetAuthStatus
    /\ history.apiKeyArg = Some("first-key-0002")
    /\ result.value.apiKeyPreview = Some("first-ke...")
    /\ history.switchUserArg = Some("bot")

----------------------------------------------------------------------------
(* Properties of the request context, checked under SpecContext *)

ReadByChain == lastRead.by \in Chains

ReadByRoot == lastRead.by = Root

\* C9: request context is never shared across concurrent invocations: a
\* getRequestContext call made by a continuation, after any suspension point and
\* whatever other chains ran in between, returns the context of the
\* runWithRequestContext call its chain was started in, never another chain's.
C9_ChainReadsItsOwnContext ==
    ReadByChain /\ lastRead.depth = 0 => lastRead.value = lastRead.startedWith

\* The first chain reads its own context while a chain started later, with another
\* context, is suspended.
C9_Witness ==
    /\ lastRead.by = 1
    /\ lastRead.depth = 0
    /\ lastRead.value = Some("contextA")
    /\ Some("contextB") \in lastRead.suspended

\* C10: request context is scoped to its handling chain: getRequestContext returns
\* undefined outside every runWithRequestContext callback chain (before any run and
\* after a run's callback has returned), the context of the innermost enclosing
\* runWithRequestContext inside nested runs, and the outer context again once the
\* inner run has returned.
C10_ScopedToInnermostRun ==
    /\ ReadByRoot /\ lastRead.depth = 0 => lastRead.value = null
    /\ ReadByChain /\ lastRead.depth = 0 /\ lastRead.startedWith = null => lastRead.value = null
    /\ (ReadByRoot \/ ReadByChain) /\ lastRead.depth > 0 => lastRead.value = lastRead.enclosing
    /\ ReadByChain /\ lastRead.depth = 0 /\ lastRead.exited # null =>
          lastRead.value = lastRead.startedWith

\* Inside a run with contextA, after a nested run with contextB has returned.
C10_Witness ==
    /\ lastRead.depth = 1
    /\ lastRead.exited = Some("contextB")
    /\ lastRead.enclosing = Some("contextA")
    /\ lastRead.value = Some("contextA")

\* C11: the request context a chain reads is a read-only snapshot: the headers and
\* session id a getRequestContext call returns inside a run are those the context
\* held when the run was entered, at every read, whatever the chain itself, the
\* caller that supplied the context or another chain has written since.
C11_ReadOnlySnapshot ==
    (ReadByRoot \/ ReadByChain) /\ lastRead.value # null =>
        lastRead.asEntered

\* C13: isAuthError returns true exactly when the error carries a response whose
\* status is 401 or 403, and false for every other error, one without a response
\* included.
C13_AuthErrorIff401Or403 ==
    result.op = "isAuthError" =>
        /\ result.outcome = "returned"
        /\ result.value = (result.arg.hasResponse /\ result.arg.status \in {401, 403})

C13_Witness ==
    /\ result.op = "isAuthError"
    /\ result.arg = HttpError(403)
    /\ result.value = TRUE

\* What a caller can observe of a provider whose fields are p.
Observed(p) ==
    [status  |-> getAuthStatus(p.apiKey, p.switchUser),
     headers |-> getAuthHeaders(p.apiKey, p.switchUser)]

\* new RedmineAuthProvider() followed by setApiKey(k) when k is given and by
\* setSwitchUser(u) when u is given.
BySetters(k, u) ==
    LET fresh   == Constructed(null, null)
        withKey == IF k = null THEN fresh ELSE setApiKey(fresh, k[1])
    IN  IF u = null THEN withKey ELSE setSwitchUser(withKey, u[1])

AfterConstructor == result.op = "constructor"

\* The forms of the constructor call the claim is about: (), (k) and (k, u).
ClaimedForm(k, u) == k # null \/ u = null

\* C14 as stated: new RedmineAuthProvider() has no key and no switch user, and
\* new RedmineAuthProvider(k) and new RedmineAuthProvider(k, u) are observably
\* (getAuthStatus, getAuthHeaders) what a fresh provider is after setApiKey(k),
\* and after setApiKey(k) and setSwitchUser(u).
C14_Original ==
    AfterConstructor /\ ClaimedForm(result.arg[1], result.arg[2]) =>
        /\ result.arg = <<null, null>> => apiKey = null /\ switchUser = null
        /\ Observed(Provider) = Observed(BySetters(result.arg[1], result.arg[2]))

\* C14 amended: the same for every k and every non-empty u; with u the empty
\* string the constructor sets no switch user, so that new RedmineAuthProvider(k, "")
\* is observably a fresh provider after setApiKey(k) alone.
C14_ConstructorAsSetters ==
    AfterConstructor /\ ClaimedForm(result.arg[1], result.arg[2]) =>
        /\ result.arg = <<null, null>> => apiKey = null /\ switchUser = null
        /\ Observed(Provider) =
               Observed(BySetters(result.arg[1],
                                  IF result.arg[2] = Some("") THEN null ELSE result.arg[2]))

C14_Witness ==
    /\ AfterConstructor
    /\ result.arg = <<Some("test-key"), Some("admin")>>
    /\ Observed(Provider).status.value.switchUser = Some("admin")
    /\ Observed(Provider).headers.outcome = "resolved"

\* What getAuthHeaders would give in the state getAuthStatus was called in: no
\* call has changed the fields since.
WouldSucceed == getAuthHeaders(apiKey, switchUser).outcome = "resolved"

WouldContainSwitchUser ==
    /\ WouldSucceed
    /\ SwitchUserHeader \in DOMAIN getAuthHeaders(apiKey, switchUser).value

\* C16 as stated: getAuthStatus().hasApiKey is true exactly when getAuthHeaders
\* would succeed, and its switchUser is non-null exactly when the result of that
\* call would contain X-Redmine-Switch-User.
C16_Original ==
    AfterGetAuthStatus =>
        /\ result.value.hasApiKey <=> WouldSucceed
        /\ result.value.switchUser # null <=> WouldContainSwitchUser

\* C16 amended: hasApiKey is true exactly when getAuthHeaders would succeed, and
\* the result of that call would contain X-Redmine-Switch-User exactly when
\* hasApiKey is true and switchUser is a non-empty string; then the header has
\* the value reported.  (switchUser is also non-null with no key set, when the
\* call would fail, and after setSwitchUser(""), when the header is left out.)
C16_StatusAgreesWithHeaders ==
    AfterGetAuthStatus =>
        /\ result.value.hasApiKey <=> WouldSucceed
        /\ (result.value.hasApiKey /\ NonEmpty(result.value.switchUser)) <=> WouldContainSwitchUser
        /\ WouldContainSwitchUser =>
               getAuthHeaders(apiKey, switchUser).value[SwitchUserHeader] = result.value.switchUser[1]

C16_Witness ==
    /\ AfterGetAuthStatus
    /\ result.value.hasApiKey
    /\ result.value.switchUser = Some("")
    /\ WouldSucceed
    /\ ~WouldContainSwitchUser

\* C17: setApiKey leaves the switch user unchanged, setSwitchUser leaves the API key
\* unchanged, and getAuthHeaders, getAuthStatus and handleAuthError leave both
\* unchanged, also when the call fails (no key set, a 401 or 403 error).
C17_Frame ==
    [][ /\ result'.op = "setApiKey" => switchUser' = switchUser
        /\ result'.op = "setSwitchUser" => apiKey' = apiKey
        /\ result'.op \in {"getAuthHeaders", "getAuthStatus", "handleAuthError"} =>
               apiKey' = apiKey /\ switchUser' = switchUser ]_vars

C17_Witness ==
    /\ AfterHandleAuthError
    /\ result.arg = HttpError(401)
    /\ result.outcome = "rejected"
    /\ apiKey = Some("test-key")
    /\ switchUser = Some("admin")

\* The fields by the calls made: the argument of the last setApiKey and that of
\* the last setSwitchUser since construction or the most recent clearAuth.
ByLastWrites == [apiKey |-> history.apiKeyArg, switchUser |-> history.switchUserArg]

\* C20: the mutators are last-write-wins and order-independent.  From every state
\* the provider can be in: setApiKey(k) twice is setApiKey(k) once, clearAuth twice
\* is clearAuth once, and setApiKey(k) and setSwitchUser(u) give the same state in
\* either order; and the state, and with it what getAuthStatus and getAuthHeaders
\* show, is that of the last setApiKey and the last setSwitchUser after the most
\* recent clearAuth.
C20_LastWriteWins ==
    /\ \A k \in ApiKeys : setApiKey(setApiKey(Provider, k), k) = setApiKey(Provider, k)
    /\ clearAuth(clearAuth(Provider)) = clearAuth(Provider)
    /\ \A k \in ApiKeys, u \in UserNames :
            setSwitchUser(setApiKey(Provider, k), u) = setApiKey(setSwitchUser(Provider, u), k)
    /\ Provider = ByLastWrites
    /\ Observed(Provider) = Observed(ByLastWrites)

C20_Witness ==
    /\ result.op = "setApiKey"
    /\ history.apiKeyArg = Some("test-key")
    /\ history.priorApiKeyArg = Some("test-key")
    /\ history.switchUserArg = Some("bot")
    /\ history.priorSwitchUserArg = Some("admin")
    /\ Provider = [apiKey |-> Some("test-key"), switchUser |-> Some("bot")]

----------------------------------------------------------------------------
(* Properties of two providers with keys of the same beginning, checked     *)
(* under SpecTwins                                                           *)

\* C19: getAuthStatus discloses nothing of the key beyond its first 8 characters:
\* two providers given the same sequence of calls, with keys that agree on their
\* first 8 characters and the same switch users, return identical getAuthStatus
\* results.
C19_StatusOfPrefixOnly ==
    AfterGetAuthStatus =>
        /\ twin.status # null
        /\ twin.status[1] = Returned(result.value)

C19_Witness ==
    /\ AfterGetAuthStatus
    /\ apiKey = Some("first-key-0001")
    /\ twin.apiKey = Some("first-key-0002")
    /\ twin.status = Some(Returned(result.value))
    /\ result.value.apiKeyPreview = Some("first-ke...")
    /\ history.priorApiKeyArg = Some("first-ke")

----------------------------------------------------------------------------
(* Properties of concurrent use, checked under SpecConcurrent *)

\* The headers a provider with the two fields p hands out, or no headers.
Reflects(outcome, p) ==
    IF NonEmpty(p.apiKey)
    THEN /\ outcome.outcome = "resolved"
         /\ outcome.value[ApiKeyHeader] = p.apiKey[1]
         /\ SwitchUserHeader \in DOMAIN outcome.value <=> NonEmpty(p.switchUser)
         /\ NonEmpty(p.switchUser) => outcome.value[SwitchUserHeader] = p.switchUser[1]
    ELSE outcome.outcome = "rejected"

\* C15: the headers an invocation gets from getAuthHeaders reflect the pair (API
\* key, switch user) of one single instant, that of the call, whatever setApiKey,
\* setSwitchUser and clearAuth calls of other invocations come before it resumes;
\* no headers carry X-Redmine-Switch-User without X-Redmine-API-Key.
C15_HeadersOfOneInstant ==
    \A i \in Invocations :
        pending[i].state = "received" =>
            /\ Reflects(pending[i].received[1], pending[i].at[1])
            /\ pending[i].received[1].outcome = "resolved" =>
                   (SwitchUserHeader \in DOMAIN pending[i].received[1].value =>
                        ApiKeyHeader \in DOMAIN pending[i].received[1].value)

C15_Witness ==
    \E i \in Invocations :
        /\ pending[i].state = "received"
        /\ pending[i].received[1].outcome = "resolved"
        /\ SwitchUserHeader \in DOMAIN pending[i].received[1].value
        /\ pending[i].received[1].value[ApiKeyHeader] = "k"
        /\ pending[i].overtaken
        /\ apiKey = null
        /\ \E j \in Invocations : j # i /\ pending[j].state = "awaiting"

----------------------------------------------------------------------------
(* Properties of the header mappings, checked under SpecMappings *)

AfterStaticGetAuthHeaders == result.op = "StaticAuthProvider.getAuthHeaders"

AfterStaticHandleAuthError == result.op = "StaticAuthProvider.handleAuthError"

\* C12 as stated: StaticAuthProvider.getAuthHeaders never fails and resolves on every
\* call to a mapping equal to the headers given at construction (the empty mapping
\* when none were given); its handleAuthError resolves to false for every error.
C12_Original ==
    /\ AfterStaticGetAuthHeaders =>
            /\ result.outcome = "resolved"
            /\ result.value = handed.given
    /\ AfterStaticHandleAuthError =>
            /\ result.outcome = "resolved"
            /\ result.value = FALSE

\* C12 amended: StaticAuthProvider.getAuthHeaders never fails and resolves on every
\* call to a mapping equal to what the object given at construction holds at the
\* time of the call: the headers given at construction (the empty mapping when none
\* were given) as long as the caller has not written to the object it passed, which
\* the provider keeps by reference, and that object's changed entries once it has.
\* Its handleAuthError resolves to false for every error.
C12_StaticHeadersOfGivenObject ==
    /\ AfterStaticGetAuthHeaders =>
            /\ result.outcome = "resolved"
            /\ ~handed.givenModified => result.value = handed.given
            /\ result.value \in {handed.given, Modified(handed.given)}
    /\ AfterStaticHandleAuthError =>
            /\ result.outcome = "resolved"
            /\ result.value = FALSE

C12_Witness ==
    /\ AfterStaticGetAuthHeaders
    /\ handed.returns >= 2
    /\ handed.givenModified
    /\ result.value = Modified(handed.given)
    /\ result.value # handed.given


\* The objects getAuthHeaders calls have resolved to.
ReturnedObjects == {o \in 1..Len(objects) : handed.atReturn[o] # null}

\* The headers of a RedmineAuthProvider by the calls made on it: those of the key
\* last set, with the switch user last set when it is not empty.
HeadersByHistory ==
    IF NonEmpty(history.switchUserArg)
    THEN (SwitchUserHeader :> history.switchUserArg[1]) @@ BasicHeaders(history.apiKeyArg[1])
    ELSE BasicHeaders(history.apiKeyArg[1])

\* C18: every getAuthHeaders (StaticAuthProvider and RedmineAuthProvider) resolves
\* to a new mapping that is independent of the provider: it is not the provider's
\* own object nor one returned before; writing to a returned mapping changes no
\* later result; and no later setApiKey, setSwitchUser, clearAuth or getAuthHeaders
\* changes a mapping already returned, which holds what it held when returned
\* and what its receiver wrote to it.
C18_FreshIndependentMappings ==
    /\ handed.last # staticHeaders
    /\ Cardinality(ReturnedObjects) = handed.returns
    /\ \A o \in ReturnedObjects :
            objects[o] = IF o \in handed.modified
                         THEN Modified(handed.atReturn[o][1])
                         ELSE handed.atReturn[o][1]
    /\ AfterStaticGetAuthHeaders /\ ~handed.givenModified => result.value = handed.given
    /\ AfterGetAuthHeaders /\ result.outcome = "resolved" => result.value = HeadersByHistory

C18_Witness ==
    /\ AfterGetAuthHeaders
    /\ result.outcome = "resolved"
    /\ handed.last \notin handed.modified
    /\ objects[handed.last] = result.value
    /\ \E o \in ReturnedObjects :
            /\ o < handed.last
            /\ o \in handed.modified
            /\ handed.atReturn[o][1] # result.value
            /\ ApiKeyHeader \in DOMAIN handed.atReturn[o][1]
            /\ objects[o] = Modified(handed.atReturn[o][1])

====
